---------------------------- MODULE Spec2Model ----------------------------
(***************************************************************************)
(* Verification model of three pieces of the client:                       *)
(*   - workers/DependencyMap/utils.ts  (extractInfoFromBinding and         *)
(*     extractInfoFromIdentifiers),                                        *)
(*   - widgets/NumberSliderWidget/utils.ts (getPosition),                  *)
(*   - widgets/BaseWidget.tsx (getWidgetView, updateDynamicHeight and      *)
(*     shouldUpdateDynamicHeight).                                         *)
(*                                                                         *)
(* A string that names a path is modelled as the sequence of its written   *)
(* segments.  A written segment is a record [k, v]: v is the segment's     *)
(* text and k the way it is written,                                       *)
(*     "name"    Api1   or  .name      (bare at the front, dotted after)   *)
(*     "index"   [0]                                                       *)
(*     "quoted"  ["name"]  or  ["0"]                                       *)
(* so two strings are equal exactly when their sequences are equal, and    *)
(* Api1.name and Api1["name"] are different strings with the same path.    *)
(***************************************************************************)
EXTENDS Integers, Sequences, FiniteSets, TLC

VARIABLES
    \* ---- workers/DependencyMap/utils.ts
    script,                  \* extractInfoFromBinding's script (<<>>: not called)
    identifiers,             \* extractInfoFromIdentifiers' identifiers
    allPaths,                \* the keys of allPaths
    pc,                      \* where the running call stands
    idx,                     \* forEach's position in identifiers
    subpaths,                \* line 55
    current,                 \* line 56
    references,              \* line 47, a Set in insertion order
    unreferencedIdentifiers, \* line 48
    result,                  \* the value returned at line 73
    \* ---- widgets/NumberSliderWidget/utils.ts
    min, max, value,         \* getPosition's argument
    position,                \* getPosition's last result
    \* ---- widgets/BaseWidget.tsx
    props,                   \* this.props
    context,                 \* this.context has updateWidgetDynamicHeight
    content,                 \* what render() returned last
    updates,                 \* the calls of componentDidUpdate so far
    frames,                  \* requestAnimationFrame callbacks not yet run
    lastCall,                \* height and shouldUpdate of the last updateDynamicHeight
    dispatched               \* the heights updateWidgetDynamicHeight was called with

depVars == <<script, identifiers, allPaths, pc, idx, subpaths, current,
             references, unreferencedIdentifiers, result>>
sliderVars == <<min, max, value, position>>
widgetVars == <<props, context, content, updates, frames, lastCall, dispatched>>
vars == <<depVars, sliderVars, widgetVars>>

----------------------------------------------------------------------------
(* Bounds of the model *)

\* the longest identifier or path, in segments
MaxSegments == 3
\* the longest list handed to extractInfoFromIdentifiers
MaxIdentifiers == 2
\* the most keys of allPaths
MaxPaths == 2
\* the most operands of a script
MaxOperands == 2
\* the longest list of short identifiers
MaxShortIdentifiers == 4

----------------------------------------------------------------------------
(* Strings naming paths *)

Tok(k, v) == [k |-> k, v |-> v]

Range(s) == {s[n] : n \in 1..Len(s)}

Digits == {"0"}

\* evaluationUtils' isInt, used by convertPathToString
isInt(v) == v \in Digits

\* lodash toPath: the segments of a written path, whatever way each is written
toPath(str) == [p \in 1..Len(str) |-> str[p].v]

\* evaluationUtils' convertPathToString: an integer segment is written [n],
\* any other one bare at the front and dotted after it
convertPathToString(arrPath) ==
    [p \in 1..Len(arrPath) |->
        IF isInt(arrPath[p]) THEN Tok("index", arrPath[p])
                             ELSE Tok("name", arrPath[p])]

\* Set.prototype.add on a Set kept in insertion order
SetAddAlways(set, x) == Append(set, x)
SetAdd(set, x) == IF x \in Range(set) THEN set ELSE Append(set, x)

\* Array.prototype.pop
Pop(arr) == SubSeq(arr, 1, Len(arr) - 1)

----------------------------------------------------------------------------
(* The inputs of the model: the written forms of the paths of one entity    *)
(* whose properties nest as Api1.name[0].name[0]...                         *)

Entity == "Api1"

SegmentAt(p) == IF p = 1 THEN Entity ELSE IF p % 2 = 0 THEN "name" ELSE "0"

\* the ways the segment at p is written: the front one bare, any later one
\* the way convertPathToString writes it or quoted in brackets
FormsAt(p) ==
    IF p = 1 THEN {Tok("name", Entity)}
    ELSE {Tok(IF isInt(SegmentAt(p)) THEN "index" ELSE "name", SegmentAt(p)),
          Tok("quoted", SegmentAt(p))}

AllForms == UNION {FormsAt(p) : p \in 1..MaxSegments}

Identifiers ==
    UNION {{s \in [1..n -> AllForms] : \A p \in 1..n : s[p] \in FormsAt(p)} :
           n \in 1..MaxSegments}

\* the keys allPaths may hold: the paths as convertPathToString writes them,
\* and the same paths written with quoted brackets throughout
Paths ==
    {str \in Identifiers :
        \/ convertPathToString(toPath(str)) = str
        \/ \A p \in 2..Len(str) : str[p].k = "quoted"}

IdentifierLists == UNION {[1..n -> Identifiers] : n \in 0..MaxIdentifiers}

\* longer lists of the short identifiers: the entity, or one property of it
ShortIdentifiers == {str \in Identifiers : Len(str) <= 2}
ShortLists == UNION {[1..n -> ShortIdentifiers] : n \in 0..MaxShortIdentifiers}

PathSets == {ps \in SUBSET Paths : Cardinality(ps) <= MaxPaths}

\* the operands of the scripts: the two of the documented example
Api1Name == <<Tok("name", "Api1"), Tok("name", "name")>>
UnknownEntityName == <<Tok("name", "unknownEntity"), Tok("name", "name")>>
Operands == {Api1Name, UnknownEntityName}

Operand(str) == [type |-> "MemberExpression", text |-> str]
Plus == [type |-> "BinaryOperator", text |-> <<>>]

\* operand (+ operand)*
ScriptOf(ops) ==
    [p \in 1..(2 * Len(ops) - 1) |->
        IF p % 2 = 1 THEN Operand(ops[(p + 1) \div 2]) ELSE Plus]

Scripts == {ScriptOf(ops) : ops \in UNION {[1..n -> Operands] : n \in 1..MaxOperands}}

\* @shared/ast extractIdentifiersFromCode: the identifiers a script refers to,
\* each once, in the order they are first met
RECURSIVE extractIdentifiersFromCode(_)
extractIdentifiersFromCode(code) ==
    IF code = <<>> THEN <<>>
    ELSE LET before == extractIdentifiersFromCode(Pop(code))
             last == code[Len(code)]
         IN IF last.type = "MemberExpression" THEN SetAdd(before, last.text)
            ELSE before

----------------------------------------------------------------------------
(* workers/DependencyMap/utils.ts *)

NoResult == [references |-> <<>>, unreferencedIdentifiers |-> <<>>]

NotANumber == [nan |-> TRUE, num |-> 0, den |-> 1]

IdleSlider == min = 0 /\ max = 0 /\ value = 0 /\ position = NotANumber

NoProps == [renderMode |-> "NONE"]
NoContent == [status |-> "none", wrappers |-> <<>>]
NoCall == [called |-> FALSE, height |-> 0, shouldUpdate |-> FALSE]

IdleWidget ==
    /\ props = NoProps
    /\ context = FALSE
    /\ content = NoContent
    /\ updates = 0
    /\ frames = 0
    /\ lastCall = NoCall
    /\ dispatched = <<>>

IdleDep ==
    /\ script = <<>>
    /\ identifiers = <<>>
    /\ allPaths = {}
    /\ pc = "idle"
    /\ idx = 1
    /\ subpaths = <<>>
    /\ current = <<>>
    /\ references = <<>>
    /\ unreferencedIdentifiers = <<>>
    /\ result = NoResult

\* a call of extractInfoFromIdentifiers or of extractInfoFromBinding, about
\* to run
Init ==
    /\ allPaths \in PathSets
    /\ \/ /\ script = <<>>
          /\ identifiers \in IdentifierLists \cup ShortLists
          /\ pc = "forEach"
       \/ /\ script \in Scripts
          /\ identifiers = <<>>
          /\ pc = "extractInfoFromBinding"
    /\ idx = 1
    /\ subpaths = <<>>
    /\ current = <<>>
    /\ references = <<>>
    /\ unreferencedIdentifiers = <<>>
    /\ result = NoResult
    /\ IdleSlider
    /\ IdleWidget

\* lines 18-27: the identifiers of the script go to extractInfoFromIdentifiers
extractInfoFromBindingFirstOnly ==
    /\ pc = "extractInfoFromBinding"
    /\ identifiers' = SubSeq(extractIdentifiersFromCode(script), 1, 1)
    /\ pc' = "forEach"
    /\ UNCHANGED <<script, allPaths, idx, subpaths, current, references,
                   unreferencedIdentifiers, result>>
    /\ UNCHANGED <<sliderVars, widgetVars>>
extractInfoFromBinding ==
    /\ pc = "extractInfoFromBinding"
    /\ identifiers' = extractIdentifiersFromCode(script)
    /\ pc' = "forEach"
    /\ UNCHANGED <<script, allPaths, idx, subpaths, current, references,
                   unreferencedIdentifiers, result>>
    /\ UNCHANGED <<sliderVars, widgetVars>>

\* line 62
CurrentJoined(sp) == [p \in 1..Len(sp) |-> Tok("name", sp[p])]
Current(sp) == convertPathToString(sp)

\* line 61
LoopConditionTopLevel(sp) == Len(sp) > 0
LoopCondition(sp) == Len(sp) > 1

\* lines 51-54: the identifier exists directly
DirectReference ==
    /\ pc = "forEach"
    /\ idx <= Len(identifiers)
    /\ identifiers[idx] \in allPaths
    /\ references' = SetAdd(references, identifiers[idx])
    /\ idx' = idx + 1
    /\ UNCHANGED <<script, identifiers, allPaths, pc, subpaths, current,
                   unreferencedIdentifiers, result>>
    /\ UNCHANGED <<sliderVars, widgetVars>>

\* lines 55-56
SplitIdentifierShortest ==
    /\ pc = "forEach"
    /\ idx <= Len(identifiers)
    /\ identifiers[idx] \notin allPaths
    /\ subpaths' = SubSeq(toPath(identifiers[idx]), 1,
                        IF Len(identifiers[idx]) > 2 THEN 2 ELSE Len(identifiers[idx]))
    /\ current' = <<>>
    /\ pc' = "while"
    /\ UNCHANGED <<script, identifiers, allPaths, idx, references,
                   unreferencedIdentifiers, result>>
    /\ UNCHANGED <<sliderVars, widgetVars>>
SplitIdentifier ==
    /\ pc = "forEach"
    /\ idx <= Len(identifiers)
    /\ identifiers[idx] \notin allPaths
    /\ subpaths' = toPath(identifiers[idx])
    /\ current' = <<>>
    /\ pc' = "while"
    /\ UNCHANGED <<script, identifiers, allPaths, idx, references,
                   unreferencedIdentifiers, result>>
    /\ UNCHANGED <<sliderVars, widgetVars>>

\* lines 61-67: the dependency is found
WhileFoundIdentifier ==
    /\ pc = "while"
    /\ LoopCondition(subpaths)
    /\ current' = Current(subpaths)
    /\ current' \in allPaths
    /\ references' = SetAdd(references, identifiers[idx])
    /\ idx' = idx + 1
    /\ pc' = "forEach"
    /\ UNCHANGED <<script, identifiers, allPaths, subpaths,
                   unreferencedIdentifiers, result>>
    /\ UNCHANGED <<sliderVars, widgetVars>>
WhileFound ==
    /\ pc = "while"
    /\ LoopCondition(subpaths)
    /\ current' = Current(subpaths)
    /\ current' \in allPaths
    /\ references' = SetAdd(references, current')
    /\ idx' = idx + 1
    /\ pc' = "forEach"
    /\ UNCHANGED <<script, identifiers, allPaths, subpaths,
                   unreferencedIdentifiers, result>>
    /\ UNCHANGED <<sliderVars, widgetVars>>

\* lines 61-62, 68: not a key, one segment less
WhilePop ==
    /\ pc = "while"
    /\ LoopCondition(subpaths)
    /\ current' = Current(subpaths)
    /\ current' \notin allPaths
    /\ subpaths' = Pop(subpaths)
    /\ UNCHANGED <<script, identifiers, allPaths, pc, idx, references,
                   unreferencedIdentifiers, result>>
    /\ UNCHANGED <<sliderVars, widgetVars>>

\* lines 61, 71: the loop ends with no reference derived
PushUnreferencedNever ==
    /\ pc = "while"
    /\ ~LoopCondition(subpaths)
    /\ idx' = idx + 1
    /\ pc' = "forEach"
    /\ UNCHANGED <<script, identifiers, allPaths, subpaths, current,
                   references, unreferencedIdentifiers, result>>
    /\ UNCHANGED <<sliderVars, widgetVars>>
PushUnreferenced ==
    /\ pc = "while"
    /\ ~LoopCondition(subpaths)
    /\ unreferencedIdentifiers' = Append(unreferencedIdentifiers, identifiers[idx])
    /\ idx' = idx + 1
    /\ pc' = "forEach"
    /\ UNCHANGED <<script, identifiers, allPaths, subpaths, current,
                   references, result>>
    /\ UNCHANGED <<sliderVars, widgetVars>>

\* line 73
ReturnInfo ==
    /\ pc = "forEach"
    /\ idx > Len(identifiers)
    /\ result' = [references |-> references,
                  unreferencedIdentifiers |-> unreferencedIdentifiers]
    /\ pc' = "done"
    /\ UNCHANGED <<script, identifiers, allPaths, idx, subpaths, current,
                   references, unreferencedIdentifiers>>
    /\ UNCHANGED <<sliderVars, widgetVars>>

Next ==
    \/ extractInfoFromBinding
    \/ DirectReference
    \/ SplitIdentifier
    \/ WhileFound
    \/ WhilePop
    \/ PushUnreferenced
    \/ ReturnInfo

Spec == Init /\ [][Next]_vars

----------------------------------------------------------------------------
(* widgets/NumberSliderWidget/utils.ts *)

\* the slider's min, max and value range over -MaxSlider..MaxSlider, the
\* value one further on either side
MaxSlider == 3

SliderNumbers == (0 - MaxSlider)..MaxSlider
SliderValues == (0 - MaxSlider - 1)..(MaxSlider + 1)

(* A number of the slider is the exact quotient num/den with den > 0, one   *)
(* of the two infinities (den = 0, num = 1 or -1), or NaN.                  *)
Number(num, den) == [nan |-> FALSE, num |-> num, den |-> den]

\* a / b in IEEE arithmetic, for integers a and b
Divide(a, b) ==
    IF b = 0 THEN (IF a = 0 THEN NotANumber
                   ELSE Number(IF a > 0 THEN 1 ELSE 0 - 1, 0))
    ELSE IF b > 0 THEN Number(a, b)
    ELSE Number(0 - a, 0 - b)

\* x * n for an integer n > 0
Times(x, n) ==
    IF x.nan \/ x.den = 0 THEN x ELSE Number(x.num * n, x.den)

\* x <= y for two numbers that are not NaN
Leq(x, y) ==
    IF x.den = 0 THEN x.num < 0 \/ (y.den = 0 /\ y.num > 0)
    ELSE IF y.den = 0 THEN y.num > 0
    ELSE x.num * y.den <= y.num * x.den

\* Math.max(x, n) and Math.min(x, n) for an integer n: NaN stays NaN
MathMax(x, n) == IF x.nan THEN x ELSE IF Leq(x, Number(n, 1)) THEN Number(n, 1) ELSE x
MathMin(x, n) == IF x.nan THEN x ELSE IF Leq(Number(n, 1), x) THEN Number(n, 1) ELSE x

\* lines 14-17
getPositionUnclamped(mx, mn, v) == Times(Divide(v - mn, mx - mn), 100)
getPosition(mx, mn, v) ==
    LET pos == Times(Divide(v - mn, mx - mn), 100)
    IN MathMin(MathMax(pos, 0), 100)

\* the slider is rendered with some min, max and value
InitSlider ==
    /\ min \in SliderNumbers
    /\ max \in SliderNumbers
    /\ value \in SliderValues
    /\ position = getPosition(max, min, value)
    /\ IdleDep
    /\ IdleWidget

\* the value changes and the thumb is placed again
SetValue ==
    /\ \E v \in SliderValues :
        /\ v # value
        /\ value' = v
        /\ position' = getPosition(max, min, v)
    /\ UNCHANGED <<min, max>>
    /\ UNCHANGED <<depVars, widgetVars>>

\* the range changes and the thumb is placed again
SetRange ==
    /\ \E mn, mx \in SliderNumbers :
        /\ <<mn, mx>> # <<min, max>>
        /\ min' = mn
        /\ max' = mx
        /\ position' = getPosition(mx, mn, value)
    /\ UNCHANGED value
    /\ UNCHANGED <<depVars, widgetVars>>

NextSlider ==
    \/ SetValue
    \/ SetRange

SpecSlider == InitSlider /\ [][NextSlider]_vars

----------------------------------------------------------------------------
(* widgets/BaseWidget.tsx *)

\* the tallest widget, in rows
MaxRows == 3
\* the most calls of componentDidUpdate
MaxUpdates == 2

\* constants/WidgetConstants, which is not among the sources at hand: the
\* values are those of the platform
DEFAULT_GRID_ROW_HEIGHT == 10
WIDGET_PADDING == 4
MAX_HEIGHT_IN_ROWS == 9000
MIN_HEIGHT_IN_ROWS == 4

RenderModes == {"CANVAS", "PAGE", "NONE"}
DynamicHeights == {"FIXED", "AUTO_HEIGHT", "AUTO_HEIGHT_WITH_LIMITS"}

\* the scrollHeights a frame may read: whole and half rows, in pixels
ScrollHeights ==
    {(r * DEFAULT_GRID_ROW_HEIGHT) \div 2 : r \in 0..(2 * (MaxRows + 1))}

\* lines 567-579, with a widget one row tall and no height limits
DefaultProps ==
    [renderMode |-> "CANVAS", detachFromLayout |-> FALSE,
     resizeDisabled |-> FALSE, isVisible |-> TRUE,
     disablePropertyPane |-> FALSE, dynamicHeight |-> "FIXED",
     topRow |-> 0, bottomRow |-> 1,
     maxDynamicHeight |-> 0, minDynamicHeight |-> 0]

\* the props that decide the wrappers
RenderProps ==
    {[DefaultProps EXCEPT !.renderMode = m, !.detachFromLayout = d,
                          !.resizeDisabled = r, !.isVisible = v,
                          !.disablePropertyPane = n, !.dynamicHeight = h] :
        m \in RenderModes, d \in BOOLEAN, r \in BOOLEAN, v \in BOOLEAN,
        n \in BOOLEAN, h \in DynamicHeights}

\* the props that decide the height (0: the limit is not set)
HeightProps ==
    {[DefaultProps EXCEPT !.dynamicHeight = h, !.topRow = t, !.bottomRow = b,
                          !.maxDynamicHeight = mx, !.minDynamicHeight = mn] :
        h \in DynamicHeights, t \in 0..1, b \in 0..MaxRows,
        mx \in 0..MaxRows, mn \in 0..MaxRows}

\* WidgetUtils' isDynamicHeightEnabledForWidget
isDynamicHeightEnabledForWidget(p) ==
    p.dynamicHeight \in {"AUTO_HEIGHT", "AUTO_HEIGHT_WITH_LIMITS"}

\* Math.ceil(a / b) for a >= 0 and b > 0
Ceil(a, b) == (a + b - 1) \div b

\* lines 188-261
shouldUpdateDynamicHeightUnguarded(p, expectedHeight) ==
    LET currentHeightInRows == p.bottomRow - p.topRow
        expectedHeightInRows == Ceil(expectedHeight, DEFAULT_GRID_ROW_HEIGHT)
        maxDynamicHeightInRows ==
            IF p.maxDynamicHeight # 0 THEN p.maxDynamicHeight
            ELSE MAX_HEIGHT_IN_ROWS
        minDynamicHeightInRows ==
            IF p.minDynamicHeight # 0 THEN p.minDynamicHeight
            ELSE MIN_HEIGHT_IN_ROWS
    IN \/ /\ currentHeightInRows < expectedHeightInRows
          /\ maxDynamicHeightInRows >= currentHeightInRows
       \/ currentHeightInRows > expectedHeightInRows
       \/ currentHeightInRows < minDynamicHeightInRows
       \/ currentHeightInRows > maxDynamicHeightInRows
shouldUpdateDynamicHeight(p, expectedHeight) ==
    LET currentHeightInRows == p.bottomRow - p.topRow
        expectedHeightInRows == Ceil(expectedHeight, DEFAULT_GRID_ROW_HEIGHT)
        maxDynamicHeightInRows ==
            IF p.maxDynamicHeight # 0 THEN p.maxDynamicHeight
            ELSE MAX_HEIGHT_IN_ROWS
        minDynamicHeightInRows ==
            IF p.minDynamicHeight # 0 THEN p.minDynamicHeight
            ELSE MIN_HEIGHT_IN_ROWS
    IN IF ~isDynamicHeightEnabledForWidget(p) THEN FALSE
       ELSE IF /\ currentHeightInRows < expectedHeightInRows
               /\ maxDynamicHeightInRows >= currentHeightInRows THEN TRUE
       ELSE IF /\ currentHeightInRows > expectedHeightInRows
               /\ \/ minDynamicHeightInRows <= expectedHeightInRows
                  \/ minDynamicHeightInRows > expectedHeightInRows THEN TRUE
       ELSE IF currentHeightInRows < minDynamicHeightInRows THEN TRUE
       ELSE IF currentHeightInRows > maxDynamicHeightInRows THEN TRUE
       ELSE FALSE

\* lines 328-337, 346-365, 373-401, 441-476: one wrapper around the content
Wrap(wrappers, component) == Append(wrappers, component)

\* lines 346-365: the widget name is shown unless the property pane is off
showWidgetName(p, wrappers) ==
    IF p.disablePropertyPane THEN wrappers
    ELSE Wrap(wrappers, "WidgetNameComponent")

\* lines 530-533
getCanvasView == <<"PageView", "ErrorBoundary">>

\* lines 481-508, from the inside out
CanvasViewResizableAlways(p) ==
    LET base == Wrap(Wrap(Wrap(getCanvasView, "PreviewModeComponent"),
                          "PreventInteractionsOverlay"),
                     "OverlayCommentsWrapper")
        resizable == Wrap(base, "ResizableComponent")
        positioned ==
            Wrap(Wrap(Wrap(showWidgetName(p, resizable), "DraggableComponent"),
                      "SnipeableComponent"),
                 "PositionedContainer")
    IN IF p.dynamicHeight = "AUTO_HEIGHT_WITH_LIMITS"
       THEN Wrap(positioned, "DynamicHeightOverlay")
       ELSE positioned
CanvasView(p) ==
    LET base == Wrap(Wrap(Wrap(getCanvasView, "PreviewModeComponent"),
                          "PreventInteractionsOverlay"),
                     "OverlayCommentsWrapper")
        resizable == IF ~p.resizeDisabled THEN Wrap(base, "ResizableComponent")
                     ELSE base
        positioned ==
            Wrap(Wrap(Wrap(showWidgetName(p, resizable), "DraggableComponent"),
                      "SnipeableComponent"),
                 "PositionedContainer")
    IN IF p.detachFromLayout THEN base
       ELSE IF p.dynamicHeight = "AUTO_HEIGHT_WITH_LIMITS"
       THEN Wrap(positioned, "DynamicHeightOverlay")
       ELSE positioned

\* lines 511-520, for a visible widget
PageView(p) ==
    LET base == Wrap(Wrap(Wrap(<<"PageView">>, "PreventInteractionsOverlay"),
                          "OverlayCommentsWrapper"),
                     "ErrorBoundary")
    IN IF ~p.detachFromLayout THEN Wrap(base, "PositionedContainer") ELSE base

\* a widget is mounted with its props, inside or outside an editor context
InitWidget ==
    /\ props \in RenderProps \cup HeightProps
    /\ context \in BOOLEAN
    /\ content = NoContent
    /\ updates = 0
    /\ frames = 0
    /\ lastCall = NoCall
    /\ dispatched = <<>>
    /\ IdleDep
    /\ IdleSlider

\* lines 318-320, 478-526: render() in CANVAS mode
RenderCanvas ==
    /\ props.renderMode = "CANVAS"
    /\ content' = [status |-> "rendered", wrappers |-> CanvasView(props)]
    /\ UNCHANGED <<props, context, updates, frames, lastCall, dispatched>>
    /\ UNCHANGED <<depVars, sliderVars>>

\* lines 511-522: render() in PAGE mode
RenderPage ==
    /\ props.renderMode = "PAGE"
    /\ content' = IF props.isVisible
                  THEN [status |-> "rendered", wrappers |-> PageView(props)]
                  ELSE [status |-> "null", wrappers |-> <<>>]
    /\ UNCHANGED <<props, context, updates, frames, lastCall, dispatched>>
    /\ UNCHANGED <<depVars, sliderVars>>

\* lines 523-524: any other render mode throws
RenderThrows ==
    /\ props.renderMode \notin {"CANVAS", "PAGE"}
    /\ content' = [status |-> "error", wrappers |-> <<>>]
    /\ UNCHANGED <<props, context, updates, frames, lastCall, dispatched>>
    /\ UNCHANGED <<depVars, sliderVars>>

\* lines 265-271: an update asks for an animation frame
componentDidUpdate ==
    /\ content.status \in {"rendered", "null"}
    /\ updates < MaxUpdates
    /\ updates' = updates + 1
    /\ frames' = frames + 1
    /\ UNCHANGED <<props, context, content, lastCall, dispatched>>
    /\ UNCHANGED <<depVars, sliderVars>>

\* lines 267-269: the frame finds no content element
FrameWithoutContent ==
    /\ frames > 0
    /\ frames' = frames - 1
    /\ UNCHANGED <<props, context, content, updates, lastCall, dispatched>>
    /\ UNCHANGED <<depVars, sliderVars>>

\* lines 176-185, called from the frame with the content's scrollHeight
updateDynamicHeight ==
    /\ frames > 0
    /\ frames' = frames - 1
    /\ \E height \in ScrollHeights :
        LET shouldUpdate == shouldUpdateDynamicHeight(props, height)
        IN /\ lastCall' = [called |-> TRUE, height |-> height,
                           shouldUpdate |-> shouldUpdate]
           /\ dispatched' =
                IF context /\ shouldUpdate
                THEN Append(dispatched, height + WIDGET_PADDING * 2)
                ELSE dispatched
    /\ UNCHANGED <<props, context, content, updates>>
    /\ UNCHANGED <<depVars, sliderVars>>

NextWidget ==
    \/ RenderCanvas
    \/ RenderPage
    \/ RenderThrows
    \/ componentDidUpdate
    \/ FrameWithoutContent
    \/ updateDynamicHeight

SpecWidget == InitWidget /\ [][NextWidget]_vars

----------------------------------------------------------------------------
(* What the claims speak of, stated apart from the loop that computes it *)

\* the path of an identifier as convertPathToString writes it
Normalised(str) == convertPathToString(toPath(str))

\* the prefix of n segments of the normalised path
NormalisedPrefix(str, n) == SubSeq(Normalised(str), 1, n)

\* the lengths, of at least two segments, at which a prefix is a key
KeyPrefixLengths(str) ==
    {n \in 2..Len(str) : NormalisedPrefix(str, n) \in allPaths}

Resolvable(str) == str \in allPaths \/ KeyPrefixLengths(str) # {}

Longest(lengths) == CHOOSE n \in lengths : \A m \in lengths : m <= n

\* the identifier at which forEach stands, and the one it has just left
Identifier == identifiers[idx]
Finished == identifiers[idx - 1]

\* one identifier has just been dealt with
Stepped == pc = "forEach" /\ idx > 1

NoDuplicates(s) == \A m, n \in 1..Len(s) : s[m] = s[n] => m = n

\* the places of a list that hold a resolvable, an unresolvable identifier
RECURSIVE Unresolved(_)
Unresolved(ids) ==
    IF ids = <<>> THEN <<>>
    ELSE LET last == ids[Len(ids)]
         IN IF Resolvable(last) THEN Unresolved(Pop(ids))
            ELSE Append(Unresolved(Pop(ids)), last)

\* the key an identifier that can be resolved stands for
KeyOf(str) ==
    IF str \in allPaths THEN str
    ELSE NormalisedPrefix(str, Longest(KeyPrefixLengths(str)))

\* the place of the first identifier of ids that stands for key
FirstPlace(ids, key) ==
    CHOOSE n \in 1..Len(ids) :
        /\ Resolvable(ids[n]) /\ KeyOf(ids[n]) = key
        /\ \A m \in 1..(n - 1) : ~(Resolvable(ids[m]) /\ KeyOf(ids[m]) = key)

----------------------------------------------------------------------------
(* C1: extractInfoFromIdentifiers classifies every identifier exactly one   *)
(* way.  When the call returns, an identifier is among                      *)
(* unreferencedIdentifiers if and only if neither it nor a prefix of its    *)
(* path of at least two segments is a key of allPaths; and each turn of     *)
(* forEach either appends the identifier to unreferencedIdentifiers and     *)
(* leaves references alone (the identifier cannot be resolved), or leaves   *)
(* unreferencedIdentifiers alone and adds one key to references (it can).   *)
C1_ClassifiedOneWay ==
    /\ [](pc = "done" =>
            \A n \in 1..Len(identifiers) :
                identifiers[n] \in Range(result.unreferencedIdentifiers)
                    <=> ~Resolvable(identifiers[n]))
    /\ [][idx' = idx + 1 =>
            IF Resolvable(Identifier)
            THEN /\ unreferencedIdentifiers' = unreferencedIdentifiers
                 /\ \E key \in allPaths :
                        /\ key \in Range(references')
                        /\ \/ references' = references
                           \/ references' = Append(references, key)
            ELSE /\ unreferencedIdentifiers' =
                        Append(unreferencedIdentifiers, Identifier)
                 /\ references' = references]_vars

\* C1's case: a call has returned with one identifier resolved through a
\* prefix and another one unreferenced
C1_Witness ==
    /\ pc = "done"
    /\ script = <<>>
    /\ \E m, n \in 1..Len(identifiers) :
        /\ identifiers[m] \notin allPaths /\ Resolvable(identifiers[m])
        /\ ~Resolvable(identifiers[n])
        /\ identifiers[n] \in Range(result.unreferencedIdentifiers)
        /\ identifiers[m] \notin Range(result.unreferencedIdentifiers)

(* C2: every reference extractInfoFromIdentifiers holds or returns, called  *)
(* directly or through extractInfoFromBinding, is a key of allPaths.        *)
C2_ReferencesAreKeys ==
    /\ Range(references) \subseteq allPaths
    /\ Range(result.references) \subseteq allPaths

\* C2's case: a returned reference that was derived from an identifier that
\* is no key itself
C2_Witness ==
    /\ pc = "done"
    /\ result.references # <<>>
    /\ \E n \in 1..Len(identifiers) :
        identifiers[n] \notin allPaths /\ Resolvable(identifiers[n])

(* C3: extractInfoFromBinding returns what extractInfoFromIdentifiers       *)
(* yields for the identifiers extracted from the script: the keys they      *)
(* stand for as references, the others as unreferencedIdentifiers.  For the *)
(* script unknownEntity.name + Api1.name, with Api1.name a key, that is     *)
(* references [Api1.name] and unreferencedIdentifiers [unknownEntity.name]. *)
C3_BindingIsIdentifiers ==
    (pc = "done" /\ script # <<>>) =>
        LET extracted == extractIdentifiersFromCode(script)
        IN /\ identifiers = extracted
           /\ Range(result.references) =
                {KeyOf(str) : str \in {i \in Range(extracted) : Resolvable(i)}}
           /\ result.unreferencedIdentifiers = Unresolved(extracted)
           /\ (script = ScriptOf(<<UnknownEntityName, Api1Name>>)
                    /\ Api1Name \in allPaths)
                => result = [references |-> <<Api1Name>>,
                             unreferencedIdentifiers |-> <<UnknownEntityName>>]

\* C3's case: the documented example has returned
C3_Witness ==
    /\ pc = "done"
    /\ script = ScriptOf(<<UnknownEntityName, Api1Name>>)
    /\ allPaths = {Api1Name}
    /\ result.references = <<Api1Name>>

(* C4: an identifier of two or more segments never yields a reference to    *)
(* its entity alone.  A turn of forEach on such an identifier adds no       *)
(* single-segment reference; when the entity name is the only prefix that   *)
(* is a key, it adds no reference and reports the identifier unreferenced.  *)
(* A single-segment identifier that is no key is reported unreferenced.     *)
C4_NoTopLevelReference ==
    [][idx' = idx + 1 =>
        /\ (Len(Identifier) >= 2 /\ references' # references)
                => Len(references'[Len(references')]) >= 2
        /\ (Len(Identifier) >= 2 /\ ~Resolvable(Identifier))
                => /\ references' = references
                   /\ unreferencedIdentifiers' =
                        Append(unreferencedIdentifiers, Identifier)
        /\ (Len(Identifier) = 1 /\ Identifier \notin allPaths)
                => /\ references' = references
                   /\ unreferencedIdentifiers' =
                        Append(unreferencedIdentifiers, Identifier)]_vars

\* C4's case: forEach has left an identifier of several segments whose
\* entity is a key and that was reported unreferenced
C4_Witness ==
    /\ Stepped
    /\ Len(Finished) >= 2
    /\ NormalisedPrefix(Finished, 1) \in allPaths
    /\ ~Resolvable(Finished)
    /\ references = <<>>
    /\ unreferencedIdentifiers[Len(unreferencedIdentifiers)] = Finished

(* C5: an identifier written with brackets that is not literally a key is   *)
(* resolved through its normalised path, so it yields the reference the     *)
(* dotted identifier yields.  When every identifier of a call is a way of   *)
(* writing one path, those that differ from the normalised one are no keys, *)
(* and the normalised one can be resolved, then the call returns exactly    *)
(* one reference, the key of the normalised one, and nothing unreferenced.  *)
C5_BracketsResolveAsDotted ==
    (pc = "done" /\ identifiers # <<>>) =>
        LET dotted == Normalised(identifiers[1])
        IN (/\ \A n \in 1..Len(identifiers) :
                    /\ Normalised(identifiers[n]) = dotted
                    /\ identifiers[n] = dotted \/ identifiers[n] \notin allPaths
            /\ Resolvable(dotted))
           => /\ result.references = <<KeyOf(dotted)>>
              /\ result.unreferencedIdentifiers = <<>>

\* C5's case: a bracketed identifier and its dotted equivalent, with an
\* index among the segments, have been resolved to one reference
C5_Witness ==
    /\ pc = "done"
    /\ Len(identifiers) >= 2
    /\ \E m, n \in 1..Len(identifiers) :
        /\ identifiers[m] # Normalised(identifiers[m])
        /\ identifiers[n] = Normalised(identifiers[m])
        /\ \E p \in 1..Len(identifiers[m]) : identifiers[m][p] = Tok("quoted", "0")
    /\ \A n \in 1..Len(identifiers) :
        /\ Normalised(identifiers[n]) = Normalised(identifiers[1])
        /\ identifiers[n] = Normalised(identifiers[1]) \/ identifiers[n] \notin allPaths
    /\ Len(result.references) = 1
    /\ result.unreferencedIdentifiers = <<>>

(* C8: when an identifier is not itself a key, the reference derived from   *)
(* it is the longest prefix of its path, of at least two segments, that is  *)
(* a key.                                                                   *)
C8_LongestPrefix ==
    [][(idx' = idx + 1 /\ Identifier \notin allPaths
            /\ KeyPrefixLengths(Identifier) # {}) =>
        LET longest ==
                NormalisedPrefix(Identifier, Longest(KeyPrefixLengths(Identifier)))
        IN /\ current' = longest
           /\ longest \in Range(references')
           /\ \/ references' = references
              \/ references' = Append(references, longest)]_vars

\* C8's case: forEach has left an identifier with a shorter and a longer
\* prefix among the keys
C8_Witness ==
    /\ Stepped
    /\ Finished \notin allPaths
    /\ Cardinality(KeyPrefixLengths(Finished)) >= 2
    /\ current \in Range(references)

(* C9: the references returned hold no duplicates and stand in the order of *)
(* the first identifier that resolved to each; unreferencedIdentifiers      *)
(* holds the unresolved identifiers in input order, one entry per           *)
(* occurrence.                                                              *)
C9_OrderAndDuplicates ==
    pc = "done" =>
        /\ NoDuplicates(result.references)
        /\ Range(result.references) =
                {KeyOf(str) : str \in {i \in Range(identifiers) : Resolvable(i)}}
        /\ \A m, n \in 1..Len(result.references) :
                m < n => FirstPlace(identifiers, result.references[m])
                            < FirstPlace(identifiers, result.references[n])
        /\ result.unreferencedIdentifiers = Unresolved(identifiers)

\* C9's case: two identifiers resolved to one path, entered once, and one
\* unresolved identifier given twice, entered twice
C9_Witness ==
    /\ pc = "done"
    /\ Len(result.references) = 1
    /\ \E m, n \in 1..Len(identifiers) :
        /\ m < n
        /\ identifiers[m] # identifiers[n]
        /\ Resolvable(identifiers[m]) /\ Resolvable(identifiers[n])
        /\ KeyOf(identifiers[m]) = KeyOf(identifiers[n])
    /\ \E m, n \in 1..Len(result.unreferencedIdentifiers) :
        m < n /\ result.unreferencedIdentifiers[m] = result.unreferencedIdentifiers[n]

(* C6: for min < max, getPosition returns the percentage                    *)
(* (value - min) / (max - min) * 100 clamped to 0..100: a number from 0 to  *)
(* 100, the percentage itself for a value from min to max, 0 for a value    *)
(* <= min and 100 for a value >= max; and when the value does not decrease, *)
(* with min and max as they were, neither does the position.                *)
C6_ClampedPercentage ==
    /\ [](min < max =>
            /\ ~position.nan
            /\ position.den > 0
            /\ 0 <= position.num
            /\ position.num <= 100 * position.den
            /\ (min <= value /\ value <= max) =>
                    position.num * (max - min) = (value - min) * 100 * position.den
            /\ value <= min => position.num = 0
            /\ value >= max => position.num = 100 * position.den)
    /\ [][(min < max /\ min' = min /\ max' = max /\ value <= value') =>
            position.num * position'.den <= position'.num * position.den]_vars

\* C6's case: the thumb has been placed for a value beyond max
C6_Witness ==
    /\ min < max
    /\ value > max
    /\ position = Number(100, 1)

\* the wrappers that place a widget in the layout
LayoutWrappers ==
    {"ResizableComponent", "WidgetNameComponent", "DraggableComponent",
     "SnipeableComponent", "PositionedContainer", "DynamicHeightOverlay"}

(* C7: the layout wrappers are applied only when the props allow them.  In  *)
(* CANVAS mode a widget with resizeDisabled is not wrapped in               *)
(* ResizableComponent and one with detachFromLayout in none of the          *)
(* resizable, widget-name, draggable, snipeable, positioned and             *)
(* dynamic-height-overlay wrappers; in PAGE mode a widget with              *)
(* detachFromLayout is not wrapped in PositionedContainer.                  *)
C7_WrappersFollowProps ==
    content.status = "rendered" =>
        /\ (props.renderMode = "CANVAS" /\ props.resizeDisabled)
                => "ResizableComponent" \notin Range(content.wrappers)
        /\ (props.renderMode = "CANVAS" /\ props.detachFromLayout)
                => Range(content.wrappers) \cap LayoutWrappers = {}
        /\ (props.renderMode = "PAGE" /\ props.detachFromLayout)
                => "PositionedContainer" \notin Range(content.wrappers)

\* C7's case: a widget detached from the layout, which would otherwise get
\* every layout wrapper, has been rendered in CANVAS mode
C7_Witness ==
    /\ content.status = "rendered"
    /\ props.renderMode = "CANVAS"
    /\ props.detachFromLayout
    /\ ~props.resizeDisabled
    /\ ~props.disablePropertyPane
    /\ props.dynamicHeight = "AUTO_HEIGHT_WITH_LIMITS"
    /\ "OverlayCommentsWrapper" \in Range(content.wrappers)

(* C10: when dynamic height is not enabled for the widget,                  *)
(* shouldUpdateDynamicHeight is false for every expected height, whatever   *)
(* the widget's rows, and updateDynamicHeight never calls                   *)
(* updateWidgetDynamicHeight.                                               *)
C10_DisabledNeverUpdates ==
    ~isDynamicHeightEnabledForWidget(props) =>
        /\ \A height \in ScrollHeights : ~shouldUpdateDynamicHeight(props, height)
        /\ ~lastCall.shouldUpdate
        /\ dispatched = <<>>

\* C10's case: updateDynamicHeight has run, inside an editor context, for a
\* widget without dynamic height whose content needs more rows than it has
C10_Witness ==
    /\ ~isDynamicHeightEnabledForWidget(props)
    /\ context
    /\ lastCall.called
    /\ props.bottomRow - props.topRow
            < Ceil(lastCall.height, DEFAULT_GRID_ROW_HEIGHT)
    /\ dispatched = <<>>

\* the widget's height in rows, and the most rows it may grow to (lines 190,
\* 212-215)
CurrentHeightInRows == props.bottomRow - props.topRow
MaxDynamicHeightInRows ==
    IF props.maxDynamicHeight # 0 THEN props.maxDynamicHeight
    ELSE MAX_HEIGHT_IN_ROWS

(* C11: when the widget's height in rows is below the expected height in    *)
(* rows, shouldUpdateDynamicHeight allows the increase only if the widget   *)
(* is not already at its maximum dynamic height: only when its height in    *)
(* rows is strictly below the maximum.                                      *)
C11_IncreaseOnlyBelowMax ==
    (/\ lastCall.called
     /\ CurrentHeightInRows < Ceil(lastCall.height, DEFAULT_GRID_ROW_HEIGHT)
     /\ lastCall.shouldUpdate)
        => CurrentHeightInRows < MaxDynamicHeightInRows

=============================================================================
